---- MODULE Spec2Model ----
(***************************************************************************)
(* The recurring-task engine of the task manager (apps/tasks/models.py)    *)
(* and the request handlers that drive it (apps/tasks/views.py); the tags   *)
(* of the users (apps/tags).                                               *)
(*                                                                         *)
(* The Task table is a sequence of rows; a row's id is its index.  Dates   *)
(* and datetimes are day numbers.  A nullable field holds None (the empty  *)
(* sequence) or Some(v) (a one-element sequence).  The Tag table is a      *)
(* sequence too; the place of a deleted tag holds None, its id is not used *)
(* again.                                                                  *)
(***************************************************************************)
EXTENDS Integers, Sequences, FiniteSets, TLC

VARIABLES
    tasks,   \* the Task table
    today,   \* timezone.now().date()
    last,    \* what the last step did
    calls,   \* calls[id]: the ordinal of the last complete_recurring_task call
             \* on row id among the calls of a period that began with the
             \* counter at 0 and has not rolled over; None when not known
    requests, \* the number of API requests served
    tag_table, \* the Tag table
    inflight \* the requests being served step by step: for each its kind,
             \* its position and the Task instance it holds in memory

vars == <<tasks, today, last, calls, requests, tag_table, inflight>>

\* ------------------------------------------------------------------ bounds
MaxTasks == 3
MaxQuota == 2
MaxCount == 2
MaxDue == 1
MaxRoots == 1
MaxRequests == 4
MaxSharedRequests == 1
MaxTagRequests == 3
MaxTaggedRequests == 3
MaxInFlight == 2

\* ------------------------------------------------------------- value sets
None == <<>>
Some(v) == <<v>>

Statuses == {"todo", "in_progress", "completed"}
Priorities == {"low", "medium", "high"}
RecurrencePatterns == {"none", "daily", "weekly", "monthly"}
Users == {"u1", "u2"}

\* The days the clock is observed at: both sides of every period threshold
\* for the engine on its own, both sides of the weekly one for the API.
ClockDays == {0, 1, 6, 7, 29, 30}
ApiClockDays == {0, 6, 7}

\* times_per_period: unset, or an integer from 0 (PositiveIntegerField).
Quotas == {None} \cup {Some(n) : n \in 0..MaxQuota}

\* The descriptive fields a client sends, in two bundles: every field takes
\* two values.  due_in is the due date, in days from the day of the request.
Payloads ==
    { [title |-> "t1", description |-> None, priority |-> "medium", tags |-> {},
       due_in |-> None],
      [title |-> "t2", description |-> Some("d1"), priority |-> "high", tags |-> {"Work"},
       due_in |-> Some(0)] }

\* A Task row with the model's defaults for the fields the client cannot set.
NewTask(user, p, status, now, pattern, quota, keep) ==
    [ user |-> user,
      title |-> p.title,
      description |-> p.description,
      status |-> status,
      priority |-> p.priority,
      tags |-> p.tags,
      due_date |-> IF p.due_in = None THEN None ELSE Some(now + p.due_in[1]),
      is_deleted |-> FALSE,
      deleted_at |-> None,
      recurrence_pattern |-> pattern,
      times_per_period |-> quota,
      current_period_count |-> 0,
      period_start_date |-> None,
      parent_task |-> None,
      keep_history |-> keep ]

\* ------------------------------------------------------ Task (models.py)
\* (is_recurring testing that the pattern is a valid choice)
is_recurring_any_choice(t) == t.recurrence_pattern \in RecurrencePatterns

is_recurring(t) == t.recurrence_pattern # "none"

\* (a month taken as 31 days)
get_next_due_date_31(t) ==
    IF t.due_date = None THEN None
    ELSE IF t.recurrence_pattern = "daily" THEN Some(t.due_date[1] + 1)
    ELSE IF t.recurrence_pattern = "weekly" THEN Some(t.due_date[1] + 7)
    ELSE IF t.recurrence_pattern = "monthly" THEN Some(t.due_date[1] + 31)
    ELSE None

get_next_due_date(t) ==
    IF t.due_date = None THEN None
    ELSE IF t.recurrence_pattern = "daily" THEN Some(t.due_date[1] + 1)
    ELSE IF t.recurrence_pattern = "weekly" THEN Some(t.due_date[1] + 7)
    ELSE IF t.recurrence_pattern = "monthly" THEN Some(t.due_date[1] + 30)
    ELSE None

\* (an unset times_per_period taken as a quota never reached)
should_create_when_quota_set(t) ==
    IF t.times_per_period = None THEN FALSE
    ELSE t.current_period_count >= t.times_per_period[1]

\* (the quota compared with > instead of >=)
should_create_over_quota(t) ==
    IF t.times_per_period = None THEN TRUE
    ELSE t.current_period_count > t.times_per_period[1]

should_create_next_occurrence(t) ==
    IF t.times_per_period = None THEN TRUE
    ELSE t.current_period_count >= t.times_per_period[1]

\* (the thresholds compared with > instead of >=)
period_elapsed_strict(t, now) ==
    LET days_elapsed == now - t.period_start_date[1]
    IN  \/ t.recurrence_pattern = "daily" /\ days_elapsed > 1
        \/ t.recurrence_pattern = "weekly" /\ days_elapsed > 7
        \/ t.recurrence_pattern = "monthly" /\ days_elapsed > 30

\* Whether the period of t has run out on day now (period_start_date is set).
period_elapsed(t, now) ==
    LET days_elapsed == now - t.period_start_date[1]
    IN  \/ t.recurrence_pattern = "daily" /\ days_elapsed >= 1
        \/ t.recurrence_pattern = "weekly" /\ days_elapsed >= 7
        \/ t.recurrence_pattern = "monthly" /\ days_elapsed >= 30

reset_period_if_needed(t, now) ==
    IF t.period_start_date = None
    THEN [t EXCEPT !.period_start_date = Some(now), !.current_period_count = 0]
    ELSE IF period_elapsed(t, now)
    THEN [t EXCEPT !.period_start_date = Some(now), !.current_period_count = 0]
    ELSE t

\* (the successor always attached to the task just completed)
parent_of_next_self(self, id) == Some(id)

\* self.parent_task or self
parent_of_next(self, id) ==
    IF self.parent_task # None THEN self.parent_task ELSE Some(id)

\* The row Task.objects.create() inserts for the next occurrence of row id.
next_occurrence(self, id, next_due_date, now) ==
    [ user |-> self.user,
      title |-> self.title,
      description |-> self.description,
      status |-> "todo",
      priority |-> self.priority,
      tags |-> self.tags,
      due_date |-> next_due_date,
      is_deleted |-> FALSE,
      deleted_at |-> None,
      recurrence_pattern |-> self.recurrence_pattern,
      times_per_period |-> self.times_per_period,
      current_period_count |-> 0,
      period_start_date |-> Some(now),
      parent_task |-> parent_of_next(self, id),
      keep_history |-> self.keep_history ]

\* (the reset also clearing the soft-delete fields)
reset_in_place_restoring(self, next_due_date, now) ==
    [self EXCEPT !.status = "todo",
                 !.due_date = next_due_date,
                 !.period_start_date = Some(now),
                 !.current_period_count = 0,
                 !.is_deleted = FALSE,
                 !.deleted_at = None]

\* (the reset leaving the counter as it is)
reset_in_place_keeps_count(self, next_due_date, now) ==
    [self EXCEPT !.status = "todo",
                 !.due_date = next_due_date,
                 !.period_start_date = Some(now)]

\* The same row reset in place (keep_history = False).
reset_in_place(self, next_due_date, now) ==
    [self EXCEPT !.status = "todo",
                 !.due_date = next_due_date,
                 !.period_start_date = Some(now),
                 !.current_period_count = 0]

\* (a new row created whatever keep_history says)
complete_recurring_task_always_new(db, id, now) ==
    LET self == db[id]
        counted == [reset_period_if_needed(self, now)
                       EXCEPT !.current_period_count = @ + 1]
        next_due_date == get_next_due_date(counted)
    IN  IF ~is_recurring(self)
        THEN [tasks |-> db, ret |-> None, saves |-> 0, created |-> 0]
        ELSE IF should_create_next_occurrence(counted)
        THEN [tasks |-> Append([db EXCEPT ![id] = counted],
                               next_occurrence(counted, id, next_due_date, now)),
              ret |-> Some(Len(db) + 1), saves |-> 1, created |-> 1]
        ELSE [tasks |-> [db EXCEPT ![id] = counted],
              ret |-> None, saves |-> 1, created |-> 0]

\* (the history branch returning without self.save())
complete_recurring_task_unsaved(db, id, now) ==
    LET self == db[id]
        counted == [reset_period_if_needed(self, now)
                       EXCEPT !.current_period_count = @ + 1]
        next_due_date == get_next_due_date(counted)
    IN  IF ~is_recurring(self)
        THEN [tasks |-> db, ret |-> None, saves |-> 0, created |-> 0]
        ELSE IF should_create_next_occurrence(counted)
        THEN IF counted.keep_history
             THEN [tasks |-> Append(db, next_occurrence(counted, id, next_due_date, now)),
                   ret |-> Some(Len(db) + 1), saves |-> 0, created |-> 1]
             ELSE [tasks |-> [db EXCEPT ![id] = reset_in_place(counted, next_due_date, now)],
                   ret |-> Some(id), saves |-> 1, created |-> 0]
        ELSE [tasks |-> [db EXCEPT ![id] = counted],
              ret |-> None, saves |-> 1, created |-> 0]

\* complete_recurring_task on the instance of row id, loaded from db, on day
\* now: the table afterwards, the returned row's id, and the numbers of
\* save() and create() calls made.
complete_recurring_task(db, id, now) ==
    LET self == db[id]
        counted == [reset_period_if_needed(self, now)
                       EXCEPT !.current_period_count = @ + 1]
        next_due_date == get_next_due_date(counted)
    IN  IF ~is_recurring(self)
        THEN [tasks |-> db, ret |-> None, saves |-> 0, created |-> 0]
        ELSE IF should_create_next_occurrence(counted)
        THEN IF counted.keep_history
             THEN [tasks |-> Append([db EXCEPT ![id] = counted],
                                    next_occurrence(counted, id, next_due_date, now)),
                   ret |-> Some(Len(db) + 1), saves |-> 1, created |-> 1]
             ELSE [tasks |-> [db EXCEPT ![id] = reset_in_place(counted, next_due_date, now)],
                   ret |-> Some(id), saves |-> 1, created |-> 0]
        ELSE [tasks |-> [db EXCEPT ![id] = counted],
              ret |-> None, saves |-> 1, created |-> 0]

\* ------------------------------------------------- Task (models.py), cont.
\* (the flag set without the time of deletion)
soft_delete_unstamped(t, now) == [t EXCEPT !.is_deleted = TRUE]

soft_delete(t, now) == [t EXCEPT !.is_deleted = TRUE, !.deleted_at = Some(now)]

\* (the flag cleared, the time of deletion kept)
restore_flag_only(t) == [t EXCEPT !.is_deleted = FALSE]

\* (the time of deletion cleared, the flag kept)
restore_time_only(t) == [t EXCEPT !.deleted_at = None]

restore(t) == [t EXCEPT !.is_deleted = FALSE, !.deleted_at = None]

\* -------------------------------------------------------- Tag (tags/models.py)
PREDEFINED_TAGS == <<"Work", "Personal", "Urgent", "Important">>

\* A Tag row (the colour is left out: no request's outcome depends on it).
NewTag(user, name, predefined) ==
    [user |-> user, name |-> name, is_predefined |-> predefined]

\* The ids of the stored tags.
TagIds(tt) == {i \in DOMAIN tt : tt[i] # None}

\* The tag of user called name, if there is one (unique_together).
named_tag(tt, user, name) ==
    {i \in TagIds(tt) : tt[i][1].user = user /\ tt[i][1].name = name}

\* Tag.objects.get_or_create(user, name, defaults={is_predefined: True})
get_or_create(tt, user, name) ==
    IF named_tag(tt, user, name) # {} THEN tt
    ELSE Append(tt, Some(NewTag(user, name, TRUE)))

RECURSIVE create_predefined_from(_, _, _)
create_predefined_from(tt, user, k) ==
    IF k > Len(PREDEFINED_TAGS) THEN tt
    ELSE create_predefined_from(get_or_create(tt, user, PREDEFINED_TAGS[k]), user, k + 1)

create_predefined_for_user(tt, user) == create_predefined_from(tt, user, 1)

\* Tag.objects.filter(user=user, is_predefined=True).exists()
has_predefined(tt, user) ==
    \E i \in TagIds(tt) : tt[i][1].user = user /\ tt[i][1].is_predefined

\* The failsafe of both perform_create handlers.
ensure_predefined(tt, user) ==
    IF has_predefined(tt, user) THEN tt ELSE create_predefined_for_user(tt, user)

\* ----------------------------------------------- TaskSerializer, TaskViewSet
Field(data, f, old) == IF f \in DOMAIN data THEN data[f] ELSE old

\* serializer.save() of an update: the validated fields written over the row.
serializer_save(instance, data) ==
    [instance EXCEPT !.title = Field(data, "title", @),
                     !.description = Field(data, "description", @),
                     !.status = Field(data, "status", @),
                     !.priority = Field(data, "priority", @),
                     !.due_date = Field(data, "due_date", @),
                     !.tags = Field(data, "tags", @),
                     !.recurrence_pattern = Field(data, "recurrence_pattern", @),
                     !.times_per_period = Field(data, "times_per_period", @),
                     !.keep_history = Field(data, "keep_history", @)]

\* The rows get_queryset() lets a detail route of user see.
get_queryset(db, user) ==
    {i \in DOMAIN db : db[i].user = user /\ ~db[i].is_deleted}

\* A status write that takes row id from a non-completed status to completed,
\* with whether the row it stores is recurring.
StatusWrites(id, before, after) ==
    IF before.status # "completed" /\ after.status = "completed"
    THEN << [id |-> id, recurring |-> is_recurring(after)] >>
    ELSE << >>

\* perform_update on row id with the validated data: the table afterwards,
\* what complete_recurring_task returned, the save() and create() calls,
\* the rows the engine was invoked on (engine) and the status writes to
\* completed (completed).  The handler returns nothing, so the view answers
\* 200 with the serializer's data: the updated task and no other (reported).
perform_update(db, id, data, now) ==
    LET instance == db[id]
        new_status == IF "status" \in DOMAIN data THEN Some(data.status) ELSE None
        updated_task == serializer_save(instance, data)
        saved == [db EXCEPT ![id] = updated_task]
        r == complete_recurring_task(saved, id, now)
    IN  IF new_status = Some("completed") /\ instance.status # "completed"
           /\ is_recurring(instance)
        THEN [tasks |-> r.tasks, ret |-> r.ret,
              saves |-> r.saves + 1, created |-> r.created,
              engine |-> <<id>>,
              completed |-> StatusWrites(id, instance, updated_task),
              code |-> 200, reported |-> {id}]
        ELSE [tasks |-> saved, ret |-> None, saves |-> 1, created |-> 0,
              engine |-> << >>,
              completed |-> StatusWrites(id, instance, updated_task),
              code |-> 200, reported |-> {id}]

\* The ids of a set, newest row first (Meta.ordering = ['-created_at']).
RECURSIVE Ordered(_)
Ordered(ids) ==
    IF ids = {} THEN << >>
    ELSE LET m == CHOOSE i \in ids : \A j \in ids : j <= i
         IN  <<m>> \o Ordered(ids \ {m})

\* One round of the bulk loops that complete tasks: the instance loaded when
\* the query ran is marked completed and saved, and the engine is invoked
\* on it if it is recurring.
complete_one(acc, task, id, now) ==
    LET marked == [task EXCEPT !.status = "completed"]
        saved == [acc.tasks EXCEPT ![id] = marked]
        r == complete_recurring_task(saved, id, now)
    IN  IF task.status = "completed" THEN acc
        ELSE IF is_recurring(marked)
        THEN [tasks |-> r.tasks, ret |-> None,
              saves |-> acc.saves + 1 + r.saves, created |-> acc.created + r.created,
              engine |-> Append(acc.engine, id),
              completed |-> acc.completed \o StatusWrites(id, task, marked),
              code |-> acc.code, reported |-> acc.reported,
              updated_count |-> acc.updated_count + 1]
        ELSE [tasks |-> saved, ret |-> None,
              saves |-> acc.saves + 1, created |-> acc.created,
              engine |-> acc.engine,
              completed |-> acc.completed \o StatusWrites(id, task, marked),
              code |-> acc.code, reported |-> acc.reported,
              updated_count |-> acc.updated_count + 1]

RECURSIVE complete_each(_, _, _, _)
complete_each(acc, loaded, ids, now) ==
    IF ids = << >> THEN acc
    ELSE complete_each(complete_one(acc, loaded[Head(ids)], Head(ids), now),
                       loaded, Tail(ids), now)

\* bulk_action before its loop: nothing written, updated_count = 0.
no_updates(db) ==
    [tasks |-> db, ret |-> None, saves |-> 0, created |-> 0,
     engine |-> << >>, completed |-> << >>,
     code |-> 200, reported |-> {}, updated_count |-> 0]

\* (the loop over the tasks to complete ending after the first recurring one)
complete_first_recurring(acc, loaded, ids, now) ==
    IF ids = << >> THEN acc
    ELSE LET done == complete_one(acc, loaded[Head(ids)], Head(ids), now)
         IN  IF done.engine # << >> THEN done
             ELSE complete_each(done, loaded, Tail(ids), now)

\* for task in tasks.filter(is_deleted=False): the rounds of complete_one
\* over the instances the query loaded, in the order ids.
complete_loop(acc, loaded, ids, now) == complete_each(acc, loaded, ids, now)

\* The rows a queryset update() or a loop of row methods writes.
update_rows(db, ids, written) ==
    [tasks |-> [i \in DOMAIN db |-> IF i \in ids THEN written[i] ELSE db[i]],
     ret |-> None, saves |-> Cardinality(ids), created |-> 0,
     engine |-> << >>, completed |-> << >>,
     code |-> 200, reported |-> {},
     updated_count |-> Cardinality(ids)]

\* bulk_action of user on task_ids; the 400 response when none of the ids is
\* a task of the user carries no count (updated_count = -1).  The response
\* reports a message and the count, no task.
bulk_action(db, user, task_ids, action_type, value, now) ==
    LET tasks_qs == {i \in DOMAIN db : db[i].user = user /\ i \in task_ids}
        active == {i \in tasks_qs : ~db[i].is_deleted}
        start == no_updates(db)
        set_deleted == [i \in DOMAIN db |-> soft_delete(db[i], now)]
        set_restored == [i \in DOMAIN db |-> restore(db[i])]
        set_priority == [i \in DOMAIN db |-> [db[i] EXCEPT !.priority = value]]
        set_status == [i \in DOMAIN db |-> [db[i] EXCEPT !.status = value]]
    IN  IF tasks_qs = {} THEN [start EXCEPT !.updated_count = -1, !.code = 400]
        ELSE IF action_type = "delete" THEN update_rows(db, active, set_deleted)
        ELSE IF action_type = "restore"
        THEN update_rows(db, tasks_qs \ active, set_restored)
        ELSE IF action_type = "complete"
        THEN complete_loop(start, db, Ordered(active), now)
        ELSE IF action_type = "set_priority"
        THEN update_rows(db, active, set_priority)
        ELSE IF value = "completed"
        THEN complete_loop(start, db, Ordered(active), now)
        ELSE update_rows(db, active, set_status)

\* ------------------------------------------------------------ model bounds
Range(seq) == {seq[i] : i \in DOMAIN seq}

\* The step with result r, whose engine calls saw the table seen, stays
\* within the bounds: the table has room for a successor of every
\* history-mode task it completes, the counters it increments are below
\* MaxCount, and no task it completes is due after day MaxDue.
WithinBounds(seen, r, now) ==
    /\ Len(seen) + Cardinality({i \in Range(r.engine) :
                                  is_recurring(seen[i]) /\ seen[i].keep_history})
          <= MaxTasks
    /\ \A i \in Range(r.engine) :
          /\ reset_period_if_needed(seen[i], now).current_period_count < MaxCount
          /\ IF seen[i].due_date = None THEN TRUE ELSE seen[i].due_date[1] <= MaxDue

\* What the last step did: the operation, the row it was about as it was
\* before, the request's input, the handler's account of its work, and the
\* response: its status code and the tasks its body reports.
Last(op, id, pre, input, r) ==
    [op |-> op, id |-> id, pre |-> pre, input |-> input, now |-> today,
     ret |-> r.ret, saves |-> r.saves, created |-> r.created,
     engine |-> r.engine, completed |-> r.completed,
     code |-> r.code, reported |-> r.reported]

\* A step that calls nothing and answers nothing (code 0: not a request).
NoCall ==
    [ret |-> None, saves |-> 0, created |-> 0, engine |-> << >>, completed |-> << >>,
     code |-> 0, reported |-> {}]

\* ------------------------------------------------------------------ clock
Tick(days) ==
    /\ \E d \in days : d > today /\ today' = d
    /\ last' = [Last("tick", 0, None, None, NoCall) EXCEPT !.now = today']
    /\ UNCHANGED <<tasks, calls, requests, tag_table, inflight>>

\* ---------------------------------------- the engine called on its own
\* Row t recurs: its pattern is one of the three periods.
Recurring(t) == t.recurrence_pattern \in {"daily", "weekly", "monthly"}

\* The length in days of the period of a recurrence pattern.
PeriodDays(pattern) ==
    CASE pattern = "daily" -> 1
      [] pattern = "weekly" -> 7
      [] pattern = "monthly" -> 30

\* Row t is in a period that began before day now and is still running.
SamePeriod(t, now) ==
    IF t.period_start_date = None THEN FALSE
    ELSE now - t.period_start_date[1] < PeriodDays(t.recurrence_pattern)

\* The ordinal of a call on row t (before the call) on day now.
Ordinal(t, known, now) ==
    IF t.current_period_count = 0 /\ (t.period_start_date = None \/ SamePeriod(t, now))
    THEN Some(1)
    ELSE IF known # None /\ SamePeriod(t, now) THEN Some(known[1] + 1)
    ELSE None

\* Task.complete_recurring_task() on a freshly loaded row.
CompleteRecurringTask(id) ==
    /\ id \in DOMAIN tasks
    /\ LET c == complete_recurring_task(tasks, id, today)
           r == [tasks |-> c.tasks, ret |-> c.ret, saves |-> c.saves,
                 created |-> c.created, engine |-> <<id>>, completed |-> << >>,
                 code |-> 0, reported |-> {}]
           nth == IF Recurring(tasks[id])
                  THEN Ordinal(tasks[id], calls[id], today) ELSE calls[id]
       IN  /\ WithinBounds(tasks, r, today)
           /\ tasks' = r.tasks
           /\ last' = Last("complete_recurring_task", id, Some(tasks[id]), None, r)
           /\ calls' = [i \in DOMAIN r.tasks |->
                          IF i = id THEN nth
                          ELSE IF i \in DOMAIN calls THEN calls[i] ELSE None]
    /\ UNCHANGED <<today, requests, tag_table, inflight>>

\* One stored task, any field values the table can hold; it may have been
\* soft-deleted (on day 0).
EngineInit ==
    /\ today = 0
    /\ \E p \in Payloads, s \in {"todo", "completed"},
          pat \in RecurrencePatterns, q \in Quotas, keep \in BOOLEAN,
          c \in 0..MaxCount, psd \in {None, Some(0)}, del \in BOOLEAN :
          tasks = << [NewTask("u1", p, s, 0, pat, q, keep)
                         EXCEPT !.current_period_count = c,
                                !.period_start_date = psd,
                                !.is_deleted = del,
                                !.deleted_at = IF del THEN Some(0) ELSE None] >>
    /\ last = Last("init", 0, None, None, NoCall)
    /\ calls = <<None>>
    /\ requests = 0
    /\ tag_table = create_predefined_for_user(<< >>, "u1")
    /\ inflight = << >>

EngineNext ==
    \/ \E id \in 1..MaxTasks : CompleteRecurringTask(id)
    \/ Tick(ClockDays)

SpecEngine == EngineInit /\ [][EngineNext]_vars

\* ------------------------------------------------- the requests of the API
\* The quotas the model's requests set: none, the least and the greatest.
ApiQuotas == {None, Some(0), Some(MaxQuota)}

\* The validated bodies of the update requests the model sends.
UpdateInputs ==
    {[status |-> st] : st \in Statuses}
    \cup {[status |-> "completed", recurrence_pattern |-> pat] : pat \in {"none", "daily"}}
    \cup {[recurrence_pattern |-> pat] : pat \in {"none", "weekly"}}
    \cup {[times_per_period |-> q] : q \in ApiQuotas}

\* The bodies of the create requests the model sends: due today, tagged.
ApiPayloads == {p \in Payloads : p.due_in # None}
ApiPatterns == {"none", "daily", "weekly"}

BulkActions ==
    {[action |-> a, value |-> None] : a \in {"delete", "restore", "complete"}}
    \cup {[action |-> "set_priority", value |-> Some("low")]}
    \cup {[action |-> "set_status", value |-> Some(st)] : st \in Statuses}

\* The tasks a user created through the API: the rows without a parent.
Roots == {i \in DOMAIN tasks : tasks[i].parent_task = None}

\* A request may be served, within the bound on their number.
Serving == requests < MaxRequests

\* One more request served.
Served ==
    /\ requests' = requests + 1
    /\ UNCHANGED <<today, calls, inflight>>

\* POST /api/tasks/: the row saved with the request's user, and the user's
\* predefined tags created if the user has none.
PerformCreate(user, p, pattern, quota, keep) ==
    /\ Serving
    /\ Cardinality(Roots) < MaxRoots
    /\ Len(tasks) < MaxTasks
    /\ tasks' = Append(tasks, NewTask(user, p, "todo", today, pattern, quota, keep))
    /\ last' = Last("perform_create", Len(tasks) + 1, None, None,
                    [NoCall EXCEPT !.saves = 1, !.created = 1,
                                   !.code = 201, !.reported = {Len(tasks) + 1}])
    /\ tag_table' = ensure_predefined(tag_table, user)
    /\ Served

\* PUT or PATCH /api/tasks/{id}/
PerformUpdate(user, id, data) ==
    /\ Serving
    /\ id \in get_queryset(tasks, user)
    /\ LET r == perform_update(tasks, id, data, today)
           seen == [tasks EXCEPT ![id] = serializer_save(tasks[id], data)]
       IN  /\ WithinBounds(seen, r, today)
           /\ tasks' = r.tasks
           /\ last' = Last("perform_update", id, Some(tasks[id]), data, r)
    /\ Served /\ UNCHANGED tag_table

\* DELETE /api/tasks/{id}/
PerformDestroy(user, id) ==
    /\ Serving
    /\ id \in get_queryset(tasks, user)
    /\ tasks' = [tasks EXCEPT ![id] = soft_delete(@, today)]
    /\ last' = Last("perform_destroy", id, Some(tasks[id]), None,
                    [NoCall EXCEPT !.saves = 1, !.code = 204])
    /\ Served /\ UNCHANGED tag_table

\* POST /api/tasks/{id}/restore/ (400 when the task is not deleted)
Restore(user, id) ==
    /\ Serving
    /\ id \in DOMAIN tasks
    /\ tasks[id].user = user
    /\ tasks' = IF tasks[id].is_deleted
                THEN [tasks EXCEPT ![id] = restore(@)] ELSE tasks
    /\ last' = Last("restore", id, Some(tasks[id]), None,
                    IF tasks[id].is_deleted
                    THEN [NoCall EXCEPT !.saves = 1, !.code = 200, !.reported = {id}]
                    ELSE [NoCall EXCEPT !.code = 400])
    /\ Served /\ UNCHANGED tag_table

\* POST /api/tasks/bulk_action/
BulkAction(user, task_ids, b) ==
    /\ Serving
    /\ task_ids # {}
    /\ LET value == IF b.value = None THEN "" ELSE b.value[1]
           r == bulk_action(tasks, user, task_ids, b.action, value, today)
       IN  /\ WithinBounds(tasks, r, today)
           /\ tasks' = r.tasks
           /\ last' = Last("bulk_action", 0, None,
                           [action |-> b.action, value |-> value,
                            updated_count |-> r.updated_count], r)
    /\ Served /\ UNCHANGED tag_table

Init ==
    /\ tasks = << >>
    /\ today = 0
    /\ last = Last("init", 0, None, None, NoCall)
    /\ calls = << >>
    /\ requests = 0
    /\ tag_table = << >>
    /\ inflight = << >>

Next ==
    \/ \E user \in Users, p \in ApiPayloads, pat \in ApiPatterns,
          q \in ApiQuotas, keep \in BOOLEAN : PerformCreate(user, p, pat, q, keep)
    \/ \E user \in Users, id \in 1..MaxTasks, data \in UpdateInputs :
          PerformUpdate(user, id, data)
    \/ \E user \in Users, id \in 1..MaxTasks : PerformDestroy(user, id)
    \/ \E user \in Users, id \in 1..MaxTasks : Restore(user, id)
    \/ \E user \in Users, task_ids \in SUBSET (1..MaxTasks), b \in BulkActions :
          BulkAction(user, task_ids, b)
    \/ Tick(ApiClockDays)

Spec == Init /\ [][Next]_vars

\* ------------------------------------- the routes, on a table two users share
\* (the detail routes looking among the tasks of every user)
get_object_of_anyone(db, user, id, route) ==
    IF id \in DOMAIN db /\ (route = "restore" \/ ~db[id].is_deleted)
    THEN Some(id) ELSE None

\* get_object(): the row a detail route of user finds for id, None for 404.
\* The restore route looks among all the user's tasks, the others among
\* those not deleted.
get_object(db, user, id, route) ==
    IF id \in DOMAIN db /\ db[id].user = user
          /\ (route = "restore" \/ ~db[id].is_deleted)
    THEN Some(id) ELSE None

NotFound == [NoCall EXCEPT !.code = 404]

\* The rows the list routes and stats of user read.
listed(db, user, route) ==
    IF route = "list" THEN get_queryset(db, user)
    ELSE IF route = "deleted"
    THEN {i \in DOMAIN db : db[i].user = user /\ db[i].is_deleted}
    ELSE {i \in DOMAIN db : db[i].user = user}

\* A request may be served, within the bound on their number.
SharedServing == requests < MaxSharedRequests

\* GET /api/tasks/, /api/tasks/deleted/ and /api/tasks/stats/
GetList(user, route) ==
    /\ SharedServing
    /\ last' = Last(route, 0, None, [user |-> user],
                    [NoCall EXCEPT !.code = 200, !.reported = listed(tasks, user, route)])
    /\ UNCHANGED tasks
    /\ Served /\ UNCHANGED tag_table

\* GET /api/tasks/{id}/
GetDetail(user, id) ==
    /\ SharedServing
    /\ last' = Last("retrieve", id, None, [user |-> user],
                    IF get_object(tasks, user, id, "retrieve") = None THEN NotFound
                    ELSE [NoCall EXCEPT !.code = 200, !.reported = {id}])
    /\ UNCHANGED tasks
    /\ Served /\ UNCHANGED tag_table

\* PATCH /api/tasks/{id}/
PatchDetail(user, id, data) ==
    /\ SharedServing
    /\ LET r == IF get_object(tasks, user, id, "update") = None
                THEN NotFound @@ [tasks |-> tasks]
                ELSE perform_update(tasks, id, data, today)
       IN  /\ tasks' = r.tasks
           /\ last' = Last("update", id, None, [user |-> user, data |-> data], r)
    /\ Served /\ UNCHANGED tag_table

\* DELETE /api/tasks/{id}/
DeleteDetail(user, id) ==
    /\ SharedServing
    /\ LET found == get_object(tasks, user, id, "destroy") # None
       IN  /\ tasks' = IF found THEN [tasks EXCEPT ![id] = soft_delete(@, today)] ELSE tasks
           /\ last' = Last("destroy", id, None, [user |-> user],
                           IF found THEN [NoCall EXCEPT !.saves = 1, !.code = 204]
                           ELSE NotFound)
    /\ Served /\ UNCHANGED tag_table

\* POST /api/tasks/{id}/restore/
PostRestore(user, id) ==
    /\ SharedServing
    /\ LET found == get_object(tasks, user, id, "restore") # None
           deleted == found /\ tasks[id].is_deleted
       IN  /\ tasks' = IF deleted THEN [tasks EXCEPT ![id] = restore(@)] ELSE tasks
           /\ last' = Last("restore", id, None, [user |-> user],
                           IF deleted
                           THEN [NoCall EXCEPT !.saves = 1, !.code = 200, !.reported = {id}]
                           ELSE IF found THEN [NoCall EXCEPT !.code = 400]
                           ELSE NotFound)
    /\ Served /\ UNCHANGED tag_table

\* POST /api/tasks/bulk_action/
PostBulkAction(user, task_ids, b) ==
    /\ SharedServing
    /\ task_ids # {}
    /\ LET value == IF b.value = None THEN "" ELSE b.value[1]
           r == bulk_action(tasks, user, task_ids, b.action, value, today)
       IN  /\ tasks' = r.tasks
           /\ last' = Last("bulk_action", 0, None,
                           [user |-> user, task_ids |-> task_ids,
                            action |-> b.action, value |-> value,
                            updated_count |-> r.updated_count], r)
    /\ Served /\ UNCHANGED tag_table

\* How a stored task recurs: not at all, daily without a quota with and
\* without history, weekly twice per period.
StoredKinds ==
    { [pattern |-> "none", quota |-> None, keep |-> TRUE],
      [pattern |-> "daily", quota |-> None, keep |-> TRUE],
      [pattern |-> "daily", quota |-> None, keep |-> FALSE],
      [pattern |-> "weekly", quota |-> Some(2), keep |-> FALSE] }

\* The tasks user may have created, some of them since deleted (on day 0).
StoredTasks(user) ==
    { [NewTask(user, p, st, 0, k.pattern, k.quota, k.keep)
          EXCEPT !.is_deleted = del,
                 !.deleted_at = IF del THEN Some(0) ELSE None] :
        p \in ApiPayloads, st \in {"todo", "completed"}, k \in StoredKinds,
        del \in BOOLEAN }

\* Two tasks are stored, the first of user u1, the second of either user.
SharedInit ==
    /\ today = 0
    /\ \E t1 \in StoredTasks("u1"), t2 \in StoredTasks("u1") \cup StoredTasks("u2") :
          tasks = <<t1, t2>>
    /\ last = Last("init", 0, None, None, NoCall)
    /\ calls = <<None, None>>
    /\ requests = 0
    /\ tag_table = create_predefined_for_user(
                       create_predefined_for_user(<< >>, tasks[1].user), tasks[2].user)
    /\ inflight = << >>

SharedNext ==
    \/ \E user \in Users, route \in {"list", "deleted", "stats"} : GetList(user, route)
    \/ \E user \in Users, id \in 1..MaxTasks : GetDetail(user, id)
    \/ \E user \in Users, id \in 1..MaxTasks, data \in UpdateInputs :
          PatchDetail(user, id, data)
    \/ \E user \in Users, id \in 1..MaxTasks : DeleteDetail(user, id)
    \/ \E user \in Users, id \in 1..MaxTasks : PostRestore(user, id)
    \/ \E user \in Users, task_ids \in SUBSET (1..MaxTasks), b \in BulkActions :
          PostBulkAction(user, task_ids, b)

SpecShared == SharedInit /\ [][SharedNext]_vars

\* ------------------------------------------------ the tag routes (tags/views.py)
\* TagViewSet.get_queryset(): the user's tags and every predefined tag.
tag_get_queryset(tt, user) ==
    {i \in TagIds(tt) : tt[i][1].user = user \/ tt[i][1].is_predefined}

\* (every tag may be deleted)
may_destroy_any(tag) == TRUE

\* perform_destroy goes on to instance.delete().
may_destroy(tag) == ~tag.is_predefined

\* The names the requests give to tags: one of the predefined, one not.
TagNames == {"Work", "Home"}

TagServing == requests < MaxTagRequests

\* The ids a request may name: those given out so far and the next one,
\* which no tag has.
TagIdRange == 1..(2 * Len(PREDEFINED_TAGS) + MaxTagRequests + 1)
Nameable(id) == id <= Len(tag_table) + 1

TagAnswer(op, id, user, code, reported) ==
    Last(op, id, None, [user |-> user],
         [NoCall EXCEPT !.code = code, !.reported = reported])

\* GET /api/tags/: the queryset serialized; nothing is written.
TagList(user) ==
    /\ TagServing
    /\ last' = TagAnswer("tag_list", 0, user, 200, tag_get_queryset(tag_table, user))
    /\ Served /\ UNCHANGED <<tasks, tag_table>>

\* POST /api/tags/: the failsafe, then the save; a second tag of the user
\* with the same name breaks unique_together (500, after the failsafe).
TagCreate(user, name) ==
    /\ TagServing
    /\ LET ensured == ensure_predefined(tag_table, user)
           taken == named_tag(ensured, user, name) # {}
       IN  /\ tag_table' = IF taken THEN ensured
                           ELSE Append(ensured, Some(NewTag(user, name, FALSE)))
           /\ last' = IF taken THEN TagAnswer("tag_create", 0, user, 500, {})
                      ELSE TagAnswer("tag_create", Len(ensured) + 1, user, 201,
                                     {Len(ensured) + 1})
    /\ Served /\ UNCHANGED tasks

\* PUT or PATCH /api/tags/{id}/: the name written (is_predefined is read-only).
TagUpdate(user, id, name) ==
    /\ TagServing
    /\ Nameable(id)
    /\ LET found == id \in tag_get_queryset(tag_table, user)
           taken == found /\ named_tag(tag_table, tag_table[id][1].user, name) \ {id} # {}
       IN  /\ tag_table' = IF found /\ ~taken
                           THEN [tag_table EXCEPT ![id] = Some([@[1] EXCEPT !.name = name])]
                           ELSE tag_table
           /\ last' = IF ~found THEN TagAnswer("tag_update", id, user, 404, {})
                      ELSE IF taken THEN TagAnswer("tag_update", id, user, 500, {})
                      ELSE TagAnswer("tag_update", id, user, 200, {id})
    /\ Served /\ UNCHANGED tasks

\* DELETE /api/tags/{id}/
TagDestroy(user, id) ==
    /\ TagServing
    /\ Nameable(id)
    /\ LET found == id \in tag_get_queryset(tag_table, user)
           allowed == found /\ may_destroy(tag_table[id][1])
       IN  /\ tag_table' = IF allowed THEN [tag_table EXCEPT ![id] = None] ELSE tag_table
           /\ last' = IF ~found THEN TagAnswer("tag_destroy", id, user, 404, {})
                      ELSE IF allowed THEN TagAnswer("tag_destroy", id, user, 204, {})
                      ELSE TagAnswer("tag_destroy", id, user, 403, {})
    /\ Served /\ UNCHANGED tasks

TagsNext ==
    \/ \E user \in Users : TagList(user)
    \/ \E user \in Users, name \in TagNames : TagCreate(user, name)
    \/ \E user \in Users, id \in TagIdRange, name \in TagNames : TagUpdate(user, id, name)
    \/ \E user \in Users, id \in TagIdRange : TagDestroy(user, id)

\* No task and no tag yet: accounts are registered without tags.
SpecTags == Init /\ [][TagsNext]_vars

\* ------------------------------------------- the tags of tasks (tag_ids)
\* In the requests below the tags of a task are Tag ids (tag_ids, written to
\* Task.tags), where the payloads above name a tag.
\* PrimaryKeyRelatedField(many=True, queryset=Tag.objects.all()): the ids
\* are valid when each is the id of a stored tag, of whichever user.
valid_tag_ids(tt, ids) == ids \subseteq TagIds(tt)

\* The ids the requests send: the first tag of the first user to get tags,
\* and the first tag of the second.
SentTagIds == {1, Len(PREDEFINED_TAGS) + 1}

TaggedServing == requests < MaxTaggedRequests

BadRequest == [NoCall EXCEPT !.code = 400]

\* POST /api/tasks/ with tag_ids: 400 when an id is no tag's; else the row
\* saved with the request's user and the tags, then the failsafe.
TaggedCreate(user, p, ids, pattern, keep) ==
    /\ TaggedServing
    /\ Len(tasks) < MaxTasks
    /\ LET ok == valid_tag_ids(tag_table, ids)
           row == NewTask(user, [p EXCEPT !.tags = ids], "todo", today, pattern, None, keep)
       IN  /\ tasks' = IF ok THEN Append(tasks, row) ELSE tasks
           /\ tag_table' = IF ok THEN ensure_predefined(tag_table, user) ELSE tag_table
           /\ last' = IF ok
                      THEN Last("create", Len(tasks) + 1, None,
                                [user |-> user, tag_ids |-> ids],
                                [NoCall EXCEPT !.saves = 1, !.created = 1, !.code = 201,
                                               !.reported = {Len(tasks) + 1}])
                      ELSE Last("create", 0, None, [user |-> user, tag_ids |-> ids],
                                BadRequest)
    /\ Served

\* PATCH /api/tasks/{id}/ with tag_ids or a status: 404 from get_object,
\* 400 from the serializer, else perform_update.
TaggedUpdate(user, id, data) ==
    /\ TaggedServing
    /\ LET found == get_object(tasks, user, id, "update") # None
           ok == IF "tags" \in DOMAIN data THEN valid_tag_ids(tag_table, data.tags) ELSE TRUE
           r == IF ~found THEN NotFound @@ [tasks |-> tasks]
                ELSE IF ~ok THEN BadRequest @@ [tasks |-> tasks]
                ELSE perform_update(tasks, id, data, today)
       IN  /\ found => WithinBounds(tasks, r, today)
           /\ tasks' = r.tasks
           /\ last' = Last("update", id, None, [user |-> user, data |-> data], r)
    /\ Served /\ UNCHANGED tag_table

TaggedNext ==
    \/ \E user \in Users, p \in ApiPayloads, ids \in SUBSET SentTagIds,
          pat \in {"none", "daily"}, keep \in BOOLEAN :
          TaggedCreate(user, p, ids, pat, keep)
    \/ \E user \in Users, id \in 1..MaxTasks,
          data \in {[tags |-> ids] : ids \in SUBSET SentTagIds}
                     \cup {[status |-> st] : st \in {"todo", "completed"}} :
          TaggedUpdate(user, id, data)

\* No task and no tag yet: a user's first task request creates the user's
\* predefined tags.
SpecTagged == Init /\ [][TaggedNext]_vars

\* ----------------------------------- completion requests that keep coming
\* PUT or PATCH /api/tasks/{id}/ by the task's owner, any number of times.
CycleUpdate(id, data) ==
    /\ id \in get_queryset(tasks, tasks[id].user)
    /\ LET r == perform_update(tasks, id, data, today)
       IN  /\ WithinBounds(tasks, r, today)
           /\ tasks' = r.tasks
           /\ last' = Last("perform_update", id, Some(tasks[id]), data, r)
    /\ UNCHANGED <<today, calls, requests, tag_table, inflight>>

\* PATCH {status: completed}
CompleteRequest(id) ==
    /\ id \in DOMAIN tasks
    /\ CycleUpdate(id, [status |-> "completed"])

\* PATCH {status: todo}: the client re-opens the task.
ReopenRequest(id) ==
    /\ id \in DOMAIN tasks
    /\ CycleUpdate(id, [status |-> "todo"])

\* One recurring task, created through the API and not completed yet.
CycleInit ==
    /\ today = 0
    /\ \E p \in ApiPayloads, pat \in {"daily", "weekly"}, q \in Quotas, keep \in BOOLEAN :
          tasks = << NewTask("u1", p, "todo", 0, pat, q, keep) >>
    /\ last = Last("init", 0, None, None, NoCall)
    /\ calls = << >>
    /\ requests = 0
    /\ tag_table = create_predefined_for_user(<< >>, "u1")
    /\ inflight = << >>

CycleNext ==
    \/ \E id \in 1..MaxTasks : CompleteRequest(id)
    \/ \E id \in 1..MaxTasks : ReopenRequest(id)
    \/ Tick(ApiClockDays)

\* Every completion request that can be made is made and served, and the
\* days go by; whether a client re-opens a task is up to the client.
SpecCycle ==
    /\ CycleInit /\ [][CycleNext]_vars
    /\ \A id \in 1..MaxTasks : WF_vars(CompleteRequest(id))
    /\ WF_vars(Tick(ApiClockDays))

\* --------------------------------------- requests served at the same time
\* Each request runs in a process of its own: it loads the Task instance with
\* one query and writes with separate statements, none of them in a
\* transaction or under a lock.  All the requests are the owner's, on task 1.
Requesters == 1..MaxInFlight
RaceKinds == {"update", "bulk_complete", "destroy"}
RaceTask == 1

\* A request that has not begun.  loaded is the instance as the query
\* returned it, local the instance in memory; transition tells whether the
\* request's status write took the stored status from another value to
\* completed, counted whether it ran the engine's increment.
Waiting(kind) ==
    [kind |-> kind, pc |-> "start", loaded |-> None, local |-> None,
     code |-> 0, transition |-> FALSE, counted |-> FALSE]

\* (the counter and the period start read again from the table by the engine)
engine_instance_refreshed(local, stored) ==
    [local EXCEPT !.current_period_count = stored.current_period_count,
                  !.period_start_date = stored.period_start_date]

\* The instance complete_recurring_task works on: the one in memory, with
\* the field values the request's query loaded.
engine_instance(local, stored) == local

\* Model.save(): every field of the instance written over the stored row.
save_all(db, id, instance) == [db EXCEPT ![id] = instance]

\* Model.save(update_fields=['is_deleted', 'deleted_at', 'updated_at'])
save_deleted_fields(db, id, instance) ==
    [db EXCEPT ![id] = [@ EXCEPT !.is_deleted = instance.is_deleted,
                                 !.deleted_at = instance.deleted_at]]

RaceStep(op, p) == Last(op, RaceTask, None, [request |-> p], NoCall)

\* get_object(), or the evaluation of the bulk query: the instance loaded.
\* A detail route finds no deleted task (404); the bulk loop skips deleted
\* tasks and tasks already completed.
RaceLoad(p) ==
    /\ inflight[p].pc = "start"
    /\ LET me == inflight[p]
           row == tasks[RaceTask]
           missing == IF me.kind = "bulk_complete" THEN FALSE
                      ELSE get_object(tasks, row.user, RaceTask, me.kind) = None
           skipped == me.kind = "bulk_complete"
                        /\ (row.is_deleted \/ row.status = "completed")
       IN  inflight' = [inflight EXCEPT ![p] =
               IF missing THEN [me EXCEPT !.pc = "done", !.code = 404]
               ELSE IF skipped THEN [me EXCEPT !.pc = "done", !.code = 200]
               ELSE [me EXCEPT !.pc = "loaded", !.loaded = Some(row),
                               !.local = Some(row)]]
    /\ last' = RaceStep("load", p)
    /\ UNCHANGED <<tasks, today, calls, requests, tag_table>>

\* serializer.save() of PATCH {status: completed}, or task.save() of the bulk
\* loop: the whole instance written; the engine follows if the instance was
\* loaded not completed and is recurring.
RaceSave(p) ==
    /\ inflight[p].pc = "loaded"
    /\ inflight[p].kind \in {"update", "bulk_complete"}
    /\ LET me == inflight[p]
           instance == me.loaded[1]
           updated_task == serializer_save(me.local[1], [status |-> "completed"])
           engine == instance.status # "completed" /\ is_recurring(instance)
       IN  /\ tasks' = save_all(tasks, RaceTask, updated_task)
           /\ inflight' = [inflight EXCEPT ![p] =
                  [me EXCEPT !.local = Some(updated_task),
                             !.transition = tasks[RaceTask].status # "completed",
                             !.pc = IF engine THEN "engine" ELSE "done",
                             !.code = IF engine THEN 0 ELSE 200]]
    /\ last' = RaceStep("save", p)
    /\ UNCHANGED <<today, calls, requests, tag_table>>

\* perform_destroy: instance.soft_delete(), which saves the two fields only.
RaceSoftDelete(p) ==
    /\ inflight[p].pc = "loaded"
    /\ inflight[p].kind = "destroy"
    /\ LET me == inflight[p]
           deleted == soft_delete(me.local[1], today)
       IN  /\ tasks' = save_deleted_fields(tasks, RaceTask, deleted)
           /\ inflight' = [inflight EXCEPT ![p] =
                  [me EXCEPT !.local = Some(deleted), !.pc = "done", !.code = 204]]
    /\ last' = RaceStep("soft_delete", p)
    /\ UNCHANGED <<today, calls, requests, tag_table>>

\* complete_recurring_task on the instance in memory, as far as the table
\* shows it: what it would store, were its writes one step.
engine_result(p) ==
    complete_recurring_task(
        save_all(tasks, RaceTask, engine_instance(inflight[p].local[1], tasks[RaceTask])),
        RaceTask, today)

\* The engine up to Task.objects.create(): the counter incremented in
\* memory, the successor inserted.
RaceCreate(p) ==
    /\ inflight[p].pc = "engine"
    /\ engine_result(p).created = 1
    /\ Len(tasks) < MaxTasks
    /\ LET r == engine_result(p)
       IN  /\ tasks' = Append(tasks, r.tasks[Len(r.tasks)])
           /\ inflight' = [inflight EXCEPT ![p] =
                  [@ EXCEPT !.local = Some(r.tasks[RaceTask]), !.counted = TRUE,
                            !.pc = "created"]]
    /\ last' = RaceStep("create", p)
    /\ UNCHANGED <<today, calls, requests, tag_table>>

\* self.save() of the engine: after the create, on the reset branch, or
\* with the counter alone; the whole instance written.
RaceSaveSelf(p) ==
    /\ \/ inflight[p].pc = "created"
       \/ inflight[p].pc = "engine" /\ engine_result(p).created = 0
    /\ LET me == inflight[p]
           self == IF me.pc = "created" THEN me.local[1]
                   ELSE engine_result(p).tasks[RaceTask]
       IN  /\ tasks' = save_all(tasks, RaceTask, self)
           /\ inflight' = [inflight EXCEPT ![p] =
                  [me EXCEPT !.local = Some(self), !.counted = TRUE,
                             !.pc = "done", !.code = 200]]
    /\ last' = RaceStep("save_self", p)
    /\ UNCHANGED <<today, calls, requests, tag_table>>

\* One daily task of u1, not completed, with the counter a task created
\* through the API can have; every requester has its request to make.
RaceInit ==
    /\ today = 0
    /\ \E p \in ApiPayloads, q \in Quotas, keep \in BOOLEAN, c \in 0..1 :
          tasks = << [NewTask("u1", p, "todo", 0, "daily", q, keep)
                         EXCEPT !.current_period_count = c,
                                !.period_start_date = IF c = 0 THEN None ELSE Some(0)] >>
    /\ last = Last("init", 0, None, None, NoCall)
    /\ calls = << >>
    /\ requests = 0
    /\ tag_table = create_predefined_for_user(<< >>, "u1")
    /\ inflight \in [Requesters -> {Waiting(k) : k \in RaceKinds}]

RaceNext ==
    \/ \E p \in Requesters : RaceLoad(p)
    \/ \E p \in Requesters : RaceSave(p)
    \/ \E p \in Requesters : RaceSoftDelete(p)
    \/ \E p \in Requesters : RaceCreate(p)
    \/ \E p \in Requesters : RaceSaveSelf(p)

SpecRace == RaceInit /\ [][RaceNext]_vars

\* ================================================= the engine's contract
EngineCalled == last.op = "complete_recurring_task"
Pre == last.pre[1]
Post == tasks[last.id]
Returned == tasks[last.ret[1]]

\* The counter the increment is applied to, and the period start it leaves,
\* as the rollover rule states them.
BaseCount == IF SamePeriod(Pre, last.now) THEN Pre.current_period_count ELSE 0
BaseStart == IF SamePeriod(Pre, last.now) THEN Pre.period_start_date ELSE Some(last.now)

\* The due date of the next occurrence, as the date rule states it.
NextDue ==
    IF Pre.due_date = None THEN None
    ELSE Some(Pre.due_date[1] + PeriodDays(Pre.recurrence_pattern))

\* C1: a call on a recurring task without times_per_period always returns a
\* task: a new row if keep_history, the same row reset to todo otherwise.
C1_UnlimitedAlwaysProduces ==
    (EngineCalled /\ Recurring(Pre) /\ Pre.times_per_period = None) =>
        /\ last.ret # None
        /\ Pre.keep_history =>
              /\ last.created = 1
              /\ last.ret = Some(Len(tasks))
              /\ last.ret # Some(last.id)
        /\ ~Pre.keep_history =>
              /\ last.created = 0
              /\ last.ret = Some(last.id)
              /\ Post.status = "todo"

C1_Witness ==
    /\ EngineCalled /\ Recurring(Pre) /\ Pre.times_per_period = None
    /\ Pre.current_period_count >= 1 /\ SamePeriod(Pre, last.now)
    /\ Pre.keep_history /\ last.ret = Some(2)

C4_NextDueDate ==
    (EngineCalled /\ Recurring(Pre) /\ last.ret # None) => Returned.due_date = NextDue

C4_Witness ==
    /\ EngineCalled /\ last.ret # None
    /\ Pre.recurrence_pattern = "monthly" /\ Pre.due_date = Some(0)
    /\ Returned.due_date = Some(30)

\* C5: the successor's parent is the completed task's parent if it has one,
\* the completed task otherwise; its tags are the completed task's tags.
C5_SuccessorParentAndTags ==
    (EngineCalled /\ Recurring(Pre) /\ last.ret # None /\ Pre.keep_history) =>
        /\ Returned.parent_task =
              IF Pre.parent_task # None THEN Pre.parent_task ELSE Some(last.id)
        /\ Returned.tags = Pre.tags

C5_Witness ==
    /\ EngineCalled /\ last.ret = Some(3) /\ Pre.keep_history
    /\ last.id = 2 /\ Pre.parent_task = Some(1) /\ Returned.parent_task = Some(1)
    /\ Returned.tags = {"Work"}

\* C6: without keep_history a producing call returns the same row, stored
\* with status todo, the next due date, period_start_date = today and
\* current_period_count = 0, and nothing else changed.
C6_ResetInPlace ==
    (EngineCalled /\ Recurring(Pre) /\ last.ret # None /\ ~Pre.keep_history) =>
        /\ last.ret = Some(last.id)
        /\ last.created = 0 /\ last.saves = 1
        /\ Post = [Pre EXCEPT !.status = "todo",
                               !.due_date = NextDue,
                               !.period_start_date = Some(last.now),
                               !.current_period_count = 0]

C6_Witness ==
    /\ EngineCalled /\ last.ret = Some(1) /\ ~Pre.keep_history
    /\ Pre.status = "completed" /\ Pre.current_period_count = 1
    /\ Pre.period_start_date = Some(0) /\ last.now = 6
    /\ Post.status = "todo" /\ Post.period_start_date = Some(6)

\* C7: with keep_history a producing call stores the original row with its
\* status as it was and its incremented counter, and returns a new row of
\* the same user: todo, next due date, counter 0, period started today, and
\* the descriptive and recurrence fields copied.
C7_HistorySuccessor ==
    (EngineCalled /\ Recurring(Pre) /\ last.ret # None /\ Pre.keep_history) =>
        /\ Post = [Pre EXCEPT !.current_period_count = BaseCount + 1,
                               !.period_start_date = BaseStart]
        /\ (Pre.times_per_period = None /\ Pre.current_period_count = 0)
              => Post.current_period_count = 1
        /\ last.ret = Some(Len(tasks)) /\ last.ret # Some(last.id)
        /\ Returned.user = Pre.user
        /\ Returned.status = "todo"
        /\ Returned.due_date = NextDue
        /\ Returned.current_period_count = 0
        /\ Returned.period_start_date = Some(last.now)
        /\ Returned.title = Pre.title
        /\ Returned.description = Pre.description
        /\ Returned.priority = Pre.priority
        /\ Returned.recurrence_pattern = Pre.recurrence_pattern
        /\ Returned.times_per_period = Pre.times_per_period
        /\ Returned.keep_history = Pre.keep_history

C7_Witness ==
    /\ EngineCalled /\ last.ret = Some(2) /\ Pre.keep_history
    /\ Pre.status = "completed" /\ Pre.times_per_period = None
    /\ Pre.current_period_count = 0 /\ Pre.recurrence_pattern = "daily"
    /\ Post.status = "completed" /\ Post.current_period_count = 1
    /\ Returned.title = "t2" /\ Returned.due_date = Some(1)

\* C8: a call on a non-recurring task returns nothing, saves nothing,
\* creates nothing and leaves the row as it was.
C8_NonRecurringNoOp ==
    (EngineCalled /\ Pre.recurrence_pattern = "none") =>
        /\ last.ret = None
        /\ last.saves = 0 /\ last.created = 0
        /\ Len(tasks) = 1
        /\ Post = Pre

C8_Witness ==
    /\ EngineCalled /\ Pre.recurrence_pattern = "none"
    /\ Pre.status = "completed" /\ Pre.period_start_date = None
    /\ Pre.times_per_period = None /\ last.ret = None

\* C9: the increment is applied to 0, with the period started today, when
\* period_start_date is unset or at least the pattern's period old, and to
\* the stored counter, with the stored period start, otherwise.
C9_PeriodRollover ==
    (EngineCalled /\ Recurring(Pre)) =>
        /\ (last.ret # None) <=>
              \/ Pre.times_per_period = None
              \/ BaseCount + 1 >= Pre.times_per_period[1]
        /\ last.ret # Some(last.id) =>
              /\ Post.current_period_count = BaseCount + 1
              /\ Post.period_start_date = BaseStart

C9_Witness ==
    /\ EngineCalled /\ Pre.recurrence_pattern = "weekly"
    /\ Pre.period_start_date = Some(0) /\ last.now = 7
    /\ Pre.current_period_count = 2 /\ Pre.times_per_period = Some(2)
    /\ last.ret = None /\ Post.current_period_count = 1
    /\ Post.period_start_date = Some(7)

\* The step just taken is a call of the engine on row id.
EngineStep(id) ==
    /\ last'.op = "complete_recurring_task"
    /\ last'.id = id
    /\ id \in DOMAIN tasks

\* C13: completions of a task with keep_history = false never create a row,
\* so that no row ever has such a task as its parent; a producing completion
\* of a task with keep_history = true adds exactly one row, a non-producing
\* one none, and the completed row and every other row stay in the table.
C13_RowsPerCompletion ==
    /\ [](\A i \in DOMAIN tasks : ~tasks[i].keep_history =>
              \A j \in DOMAIN tasks : tasks[j].parent_task # Some(i))
    /\ [][\A id \in 1..MaxTasks : (EngineStep(id) /\ Recurring(tasks[id])) =>
              /\ ~tasks[id].keep_history => Len(tasks') = Len(tasks)
              /\ (tasks[id].keep_history /\ last'.ret # None) =>
                    /\ Len(tasks') = Len(tasks) + 1
                    /\ last'.ret = Some(Len(tasks'))
                    /\ tasks'[Len(tasks')].parent_task \in {Some(id), tasks[id].parent_task}
              /\ (tasks[id].keep_history /\ last'.ret = None) => Len(tasks') = Len(tasks)
              /\ tasks'[id].title = tasks[id].title
              /\ \A i \in DOMAIN tasks : i # id => tasks'[i] = tasks[i]]_vars

C13_Witness ==
    /\ EngineCalled /\ Pre.keep_history /\ last.created = 1
    /\ Len(tasks) = 3 /\ last.id = 1
    /\ tasks[2].parent_task = Some(1) /\ tasks[3].parent_task = Some(1)

\* C14: a call of the engine leaves is_deleted and deleted_at of the row it
\* is invoked on as they were, on every branch, and removes no row.
C14_SoftDeleteFieldsUntouched ==
    [][\A id \in 1..MaxTasks : EngineStep(id) =>
          /\ Len(tasks') >= Len(tasks)
          /\ tasks'[id].is_deleted = tasks[id].is_deleted
          /\ tasks'[id].deleted_at = tasks[id].deleted_at]_vars

C14_Witness ==
    /\ EngineCalled /\ Pre.is_deleted /\ Pre.deleted_at = Some(0)
    /\ ~Pre.keep_history /\ last.ret = Some(last.id)
    /\ Post.is_deleted /\ Post.deleted_at = Some(0) /\ last.now = 6

\* ============================================ the engine behind the API
UpdateCompletes ==
    /\ last.op = "perform_update"
    /\ last.input = [status |-> "completed"]

\* The task of the scenario: weekly, twice per period, reset in place, due.
TwiceWeekly(t) ==
    /\ t.recurrence_pattern = "weekly"
    /\ t.times_per_period = Some(2)
    /\ ~t.keep_history
    /\ t.due_date # None

\* C3: a weekly task with times_per_period = 2 and keep_history = false, due
\* on day D, completed twice through the update endpoint: after the first
\* completion it is todo with counter 1 and due on D + 7; after the second
\* it is completed with counter 2 and nothing is produced.
C3_TwiceWeeklyScenario ==
    (UpdateCompletes /\ TwiceWeekly(Pre)) =>
        /\ (Pre.current_period_count = 0 /\ Pre.status = "todo") =>
              /\ Post.status = "todo"
              /\ Post.current_period_count = 1
              /\ Post.due_date = Some(Pre.due_date[1] + 7)
        /\ Pre.current_period_count = 1 =>
              /\ Post.status = "completed"
              /\ Post.current_period_count = 2
              /\ last.ret = None

\* The number of times x occurs in seq.
Occurrences(seq, x) == Cardinality({k \in DOMAIN seq : seq[k] = x})

\* C10: in every update and bulk request, complete_recurring_task is invoked
\* on a task once for each write that takes its stored status from a
\* non-completed value to completed while the task is recurring, and not
\* otherwise.
C10_InvokedOncePerTransition ==
    last.op \in {"perform_update", "bulk_action"} =>
        \A i \in DOMAIN tasks :
            Occurrences(last.engine, i)
                = Occurrences(last.completed, [id |-> i, recurring |-> TRUE])

\* C15: when an update request completes a recurring task and the engine
\* returns a successor distinct from the updated task, the response reports
\* the successor as well as the updated task.
C15_SuccessorReported ==
    (last.op = "perform_update" /\ last.ret # None /\ last.ret # Some(last.id)) =>
        /\ last.id \in last.reported
        /\ last.ret[1] \in last.reported

\* The update just served wrote status completed over another status and a
\* recurrence pattern other than the stored one.
CompletesAndRepatterns ==
    /\ last.op = "perform_update"
    /\ DOMAIN last.input = {"status", "recurrence_pattern"}
    /\ last.input.status = "completed"
    /\ Pre.status # "completed"
    /\ last.input.recurrence_pattern # Pre.recurrence_pattern

\* The row as the request's fields alone leave it.
FieldsWritten ==
    [Pre EXCEPT !.status = "completed",
                !.recurrence_pattern = last.input.recurrence_pattern]

\* The recurrence effects: a successor created, or the row stored with more
\* than the request's fields changed (the counter, the period, the reset).
EffectsApplied == last.created = 1 \/ Post # FieldsWritten

\* C25: an update that sets status to completed on a task that is not
\* completed and changes recurrence_pattern in the same request applies the
\* recurrence effects if and only if the pattern stored afterwards is not none.
C25_EffectsFollowStoredPattern ==
    CompletesAndRepatterns => (EffectsApplied <=> Post.recurrence_pattern # "none")

\* ================================================== requests on a shared table
\* The request just answered is a bulk action that completes tasks.
BulkCompletes ==
    /\ last'.op = "bulk_action"
    /\ \/ last'.input.action = "complete"
       \/ last'.input.action = "set_status" /\ last'.input.value = "completed"

\* The orders a set of rows can be iterated in.
Orders(S) ==
    {o \in [1..Cardinality(S) -> S] : \A a, b \in 1..Cardinality(S) : o[a] = o[b] => a = b}

\* The rows of table t after the first n.
RowsAfter(t, n) == {t[j] : j \in (n + 1)..Len(t)}

\* C11: a bulk complete (or bulk set_status completed) leaves each task of
\* the batch as a PATCH {status: completed} of that task alone would leave
\* it, and creates the successors those requests would create, whatever the
\* order of iteration and whatever else is in the batch; tasks that are
\* already completed, deleted or not the user's are left as they were and
\* are not counted.
C11_BulkAsEachAlone ==
    [][BulkCompletes =>
          LET user == last'.input.user
              batch == {i \in DOMAIN tasks : tasks[i].user = user /\ i \in last'.input.task_ids}
              active == {i \in batch : ~tasks[i].is_deleted}
              acted == {i \in active : tasks[i].status # "completed"}
              alone(i) == perform_update(tasks, i, [status |-> "completed"], today)
              producing == {i \in acted : alone(i).created = 1}
          IN  batch # {} =>
                /\ \A i \in DOMAIN tasks :
                      tasks'[i] = IF i \in acted THEN alone(i).tasks[i] ELSE tasks[i]
                /\ last'.input.updated_count = Cardinality(acted)
                /\ Len(tasks') = Len(tasks) + Cardinality(producing)
                /\ RowsAfter(tasks', Len(tasks))
                      = {alone(i).tasks[Len(tasks) + 1] : i \in producing}
                /\ \A o \in Orders(active) :
                      LET r == complete_loop(no_updates(tasks), tasks, o, today)
                      IN  /\ \A i \in DOMAIN tasks : r.tasks[i] = tasks'[i]
                          /\ RowsAfter(r.tasks, Len(tasks)) = RowsAfter(tasks', Len(tasks))
                          /\ Len(r.tasks) = Len(tasks')
                          /\ r.updated_count = last'.input.updated_count]_vars

C11_Witness ==
    /\ last.op = "bulk_action" /\ last.input.action = "complete"
    /\ last.input.task_ids = {1, 2} /\ last.input.updated_count = 2
    /\ Len(tasks) = 4
    /\ tasks[3].parent_task = Some(2) /\ tasks[4].parent_task = Some(1)
    /\ tasks[1].status = "completed" /\ tasks[2].status = "completed"

DetailRoutes == {"retrieve", "update", "destroy", "restore"}
TaskRoutes == DetailRoutes \cup {"list", "deleted", "stats", "bulk_action"}

\* C16: a request of user U leaves every task of another owner as it was,
\* creates rows for U only and reports tasks of U only; a detail route that
\* names a task of another user answers 404 and changes nothing; a bulk
\* action does what it would do without the ids of other users' tasks, and
\* answers 400 and changes nothing when no id is a task of U.
C16_UserIsolation ==
    [][last'.op \in TaskRoutes =>
          LET user == last'.input.user
              own == {i \in DOMAIN tasks : tasks[i].user = user}
          IN  /\ \A i \in DOMAIN tasks \ own : tasks'[i] = tasks[i]
              /\ \A j \in DOMAIN tasks' \ DOMAIN tasks : tasks'[j].user = user
              /\ last'.reported \subseteq own
              /\ (last'.op \in DetailRoutes /\ last'.id \notin own) =>
                    /\ last'.code = 404
                    /\ last'.reported = {}
                    /\ tasks' = tasks
              /\ last'.op = "bulk_action" =>
                    LET named == last'.input.task_ids \cap own
                    IN  IF named = {}
                        THEN last'.code = 400 /\ tasks' = tasks
                        ELSE /\ last'.code = 200
                             /\ tasks' = bulk_action(tasks, user, named, last'.input.action,
                                                      last'.input.value, today).tasks]_vars

C16_Witness ==
    /\ last.op = "bulk_action" /\ last.input.action = "delete"
    /\ last.input.user = "u1" /\ last.input.task_ids = {1, 2}
    /\ tasks[1].user = "u1" /\ tasks[2].user = "u2"
    /\ tasks[1].is_deleted /\ ~tasks[2].is_deleted
    /\ last.input.updated_count = 1

\* ===================================================== soft delete, restore
\* The step just taken may restore row i: the restore route on i, or a bulk
\* restore.
RestoreOf(i) ==
    \/ last'.op = "restore" /\ last'.id = i
    \/ last'.op = "bulk_action" /\ last'.input.action = "restore"

InRegularList(t, i) == i \in listed(t, t[i].user, "list")
InDeletedList(t, i) == i \in listed(t, t[i].user, "deleted")

\* C17: DELETE keeps the row, with is_deleted = true and deleted_at = now
\* and nothing else changed; a deleted task is absent from its owner's
\* regular list and present in the deleted list, and stays as it is through
\* every request that is not a restore of it; every task is in exactly one
\* of the two lists of its owner.
C17_SoftDelete ==
    /\ [](\A i \in DOMAIN tasks : InRegularList(tasks, i) # InDeletedList(tasks, i))
    /\ [][last'.op = "perform_destroy" =>
              /\ tasks' = [tasks EXCEPT ![last'.id] =
                              [@ EXCEPT !.is_deleted = TRUE, !.deleted_at = Some(today)]]
              /\ ~InRegularList(tasks', last'.id)
              /\ InDeletedList(tasks', last'.id)]_vars
    /\ [][\A i \in DOMAIN tasks : (tasks[i].is_deleted /\ ~RestoreOf(i)) =>
              /\ tasks'[i] = tasks[i]
              /\ tasks'[i].deleted_at # None
              /\ ~InRegularList(tasks', i)
              /\ InDeletedList(tasks', i)]_vars

C17_Witness ==
    /\ Len(tasks) = 2
    /\ tasks[1].is_deleted /\ tasks[1].deleted_at = Some(0)
    /\ last.op = "bulk_action" /\ last.input.action = "set_priority"
    /\ last.input.updated_count = 1 /\ last.now = 6
    /\ tasks[1].priority = "high" /\ tasks[2].priority = "low"
    /\ ~tasks[2].is_deleted

C12_CounterWithinQuota ==
    \A i \in DOMAIN tasks :
        tasks[i].times_per_period # None =>
            /\ 0 <= tasks[i].current_period_count
            /\ tasks[i].current_period_count <= tasks[i].times_per_period[1] + 1

\* ======================================================================= tags
\* The ids of the predefined tags in table tt.
Predefined(tt) == {i \in TagIds(tt) : tt[i][1].is_predefined}

\* C19: DELETE on a predefined tag answers 403 and the tag stays; DELETE on
\* a custom tag of the requesting user removes it; no tag request makes a
\* predefined tag disappear or stop being predefined.
C19_PredefinedTagsStay ==
    /\ [][last'.op = "tag_destroy" =>
              LET id == last'.id
              IN  IF id \in Predefined(tag_table)
                  THEN last'.code = 403 /\ tag_table' = tag_table
                  ELSE (id \in TagIds(tag_table)
                          /\ tag_table[id][1].user = last'.input.user) =>
                            /\ last'.code = 204
                            /\ tag_table' = [tag_table EXCEPT ![id] = None]]_vars
    /\ [][Predefined(tag_table) \subseteq Predefined(tag_table')]_vars

C19_Witness ==
    /\ last.op = "tag_destroy" /\ last.code = 403
    /\ last.input.user = "u2" /\ last.id \in Predefined(tag_table)
    /\ tag_table[last.id][1].user = "u1"
    /\ Cardinality(Predefined(tag_table)) = 4
    /\ \E i \in DOMAIN tag_table : tag_table[i] = None

\* C20: after a user's GET on the tag list the user owns exactly four
\* predefined tags, Work, Personal, Urgent and Important, and the response
\* holds at least four tags.
C20_PredefinedOnFetch ==
    last.op = "tag_list" =>
        LET mine == {i \in Predefined(tag_table) : tag_table[i][1].user = last.input.user}
        IN  /\ Cardinality(mine) = 4
            /\ {tag_table[i][1].name : i \in mine} = {"Work", "Personal", "Urgent", "Important"}
            /\ Cardinality(last.reported) >= 4

\* ============================================================ the parent chain
\* C23: every task with a parent points to a stored row that has no parent
\* itself (the root of its chain), and no task is its own parent, whatever
\* roots and successors have been completed.
C23_ParentChainOneHop ==
    \A i \in DOMAIN tasks :
        tasks[i].parent_task # None =>
            LET p == tasks[i].parent_task[1]
            IN  /\ p \in DOMAIN tasks
                /\ p # i
                /\ tasks[p].parent_task = None

C23_Witness ==
    /\ EngineCalled /\ last.id = 2 /\ last.created = 1 /\ last.now = 7
    /\ Len(tasks) = 3
    /\ tasks[1].parent_task = None
    /\ tasks[2].parent_task = Some(1) /\ tasks[2].status = "todo"
    /\ tasks[3].parent_task = Some(1)

\* ==================================================== the soft-delete fields
\* C28: through every delete, restore, bulk delete, bulk restore, update and
\* completion request, is_deleted is true exactly when deleted_at is set;
\* and every row a request adds to the table, the engine's successors among
\* them, starts with is_deleted = false and deleted_at unset.
C28_DeletedIffStamped ==
    /\ [](\A i \in DOMAIN tasks : tasks[i].is_deleted <=> tasks[i].deleted_at # None)
    /\ [][\A j \in DOMAIN tasks' \ DOMAIN tasks :
              /\ ~tasks'[j].is_deleted
              /\ tasks'[j].deleted_at = None]_vars

C28_Witness ==
    /\ last.op = "bulk_action" /\ last.input.action = "restore"
    /\ last.input.updated_count = 1
    /\ Len(tasks) = 2
    /\ ~tasks[1].is_deleted /\ tasks[1].deleted_at = None
    /\ tasks[1].status = "completed"
    /\ tasks[2].parent_task = Some(1)
    /\ tasks[2].is_deleted /\ tasks[2].deleted_at # None

\* ============================================================ the tags of tasks
\* C26: every tag of every task is a stored tag of the task's owner,
\* through task creation, task update with tag_ids and the copy of the tags
\* onto a successor.
C26_TaskTagsOfOwner ==
    \A i \in DOMAIN tasks :
        \A g \in tasks[i].tags :
            /\ g \in TagIds(tag_table)
            /\ tag_table[g][1].user = tasks[i].user

\* ================================================================ the cycle
\* The completion that stored row t produced a successor: history mode, and
\* the counter it stored has reached the quota, if there is one.
ProducedSuccessor(t) ==
    /\ t.keep_history
    /\ IF t.times_per_period = None THEN TRUE
       ELSE t.current_period_count >= t.times_per_period[1]

\* Row i is a recurring row in Completed that is not the original of a
\* history-mode completion that produced a successor.
CompletedToCycle(i) ==
    /\ i \in DOMAIN tasks
    /\ Recurring(tasks[i])
    /\ tasks[i].status = "completed"
    /\ ~ProducedSuccessor(tasks[i])

\* C21: a recurring row stays in Completed for good only when it is a
\* history-mode row whose completion produced a successor; every other
\* completed recurring row (no-history mode, or completed below the quota)
\* is eventually back in Todo.
C21_CompletedRowsCycle ==
    \A i \in 1..MaxTasks :
        CompletedToCycle(i) ~> (i \in DOMAIN tasks /\ tasks[i].status = "todo")

\* ================================================ requests at the same time
\* Every request has been answered.
RaceDone == \A p \in Requesters : inflight[p].pc = "done"

\* Requests p and q both ran the engine's increment on the same counter value.
ReadSameCount(p, q) ==
    /\ p # q
    /\ inflight[p].counted /\ inflight[q].counted
    /\ inflight[p].loaded[1].current_period_count
          = inflight[q].loaded[1].current_period_count

\* C22: when two completion requests for the same task have both read the
\* same current_period_count and both incremented it, the stored counter
\* never reflects both increments: it is at most the value read plus one
\* (a lost update), and there is an interleaving in which this happens.
C22_LostCounterUpdate ==
    \A p, q \in Requesters :
        ReadSameCount(p, q) =>
            tasks[RaceTask].current_period_count
                <= inflight[p].loaded[1].current_period_count + 1

C22_Witness ==
    /\ RaceDone
    /\ ReadSameCount(1, 2)
    /\ inflight[1].kind = "update" /\ inflight[2].kind = "update"
    /\ inflight[1].loaded[1].current_period_count = 0
    /\ tasks[RaceTask].times_per_period = Some(2)
    /\ tasks[RaceTask].current_period_count = 1
    /\ tasks[RaceTask].status = "completed"
    /\ Len(tasks) = 1

\* The successors of the task: the rows that have it as their parent.
SuccessorsOf(id) == {j \in DOMAIN tasks : tasks[j].parent_task = Some(id)}

\* The requests whose status write took the stored status to completed.
Transitions == {p \in Requesters : inflight[p].transition}

\* C24: a history-mode recurring task gets at most one successor for each
\* transition of its stored status from a non-completed value to completed,
\* however two update or bulk complete requests for it interleave.
C24_OneSuccessorPerTransition ==
    tasks[RaceTask].keep_history =>
        Cardinality(SuccessorsOf(RaceTask)) <= Cardinality(Transitions)

\* C27: a soft delete answered 204 is not undone by a completion request in
\* progress at the time: once every request has finished, the task has
\* is_deleted = true and deleted_at set.
C27_DeleteNotUndone ==
    (RaceDone /\ \E p \in Requesters :
                    inflight[p].kind = "destroy" /\ inflight[p].code = 204) =>
        /\ tasks[RaceTask].is_deleted
        /\ tasks[RaceTask].deleted_at # None

====
